---- MODULE Spec2Model ----
(***************************************************************************)
(* Model of src/server.js: an Express application that authenticates       *)
(* inbound requests with a bearer token, rewrites an OpenAI-shaped chat    *)
(* completion request into an NVIDIA NIM request, forwards it with         *)
(* axios.post and reshapes the answer (or pipes the upstream byte stream). *)
(*                                                                         *)
(* JavaScript values are tagged records, so that undefined, null, false,   *)
(* 0 and '' stay distinct and the falsy-coalescing `||` of the source can  *)
(* be computed as the source computes it.  A JSON object field holding     *)
(* Undefined stands for an absent field: destructuring an absent field     *)
(* yields undefined, and JSON.stringify omits a field holding undefined.   *)
(* Temperatures are carried in tenths (7 is 0.7); Date.now() values (the   *)
(* envelope's id and created) are not modelled.                            *)
(*                                                                         *)
(* The model follows one request at a time from the authentication         *)
(* middleware on, with req.body as express.json() leaves it for a          *)
(* parsable body; the handlers write no variable shared between requests.  *)
(***************************************************************************)
EXTENDS Integers, Sequences, FiniteSets, TLC

VARIABLES PROXY_SECRET, req, pc, res, outbound, upstream, nRequests, nAuthChat, nOutbound

vars == <<PROXY_SECRET, req, pc, res, outbound, upstream, nRequests, nAuthChat, nOutbound>>

-----------------------------------------------------------------------------
(* Bounds *)

MaxReq == 2

MaxChunks == 2

-----------------------------------------------------------------------------
(* JavaScript values *)

Undefined == [t |-> "undefined"]

Null == [t |-> "null"]

Str(s) == [t |-> "string", s |-> s]

Num(n) == [t |-> "number", n |-> n]

Bool(b) == [t |-> "boolean", b |-> b]

Obj(f) == [t |-> "object", f |-> f]

\* ToBoolean, as used by `!x`, `x || y` and `x ? a : b`
Truthy(v) ==
    CASE v.t = "undefined" -> FALSE
      [] v.t = "null" -> FALSE
      [] v.t = "boolean" -> v.b
      [] v.t = "number" -> v.n # 0
      [] v.t = "string" -> v.s # ""
      [] OTHER -> TRUE

\* a || b
OrElse(a, b) == IF Truthy(a) THEN a ELSE b

Nullish(v) == v.t \in {"undefined", "null"}

\* o?.k : undefined when o is nullish or has no property k
OptGet(o, k) == IF o.t = "object" /\ k \in DOMAIN o.f THEN o.f[k] ELSE Undefined

\* String.prototype.startsWith
startsWith(s, p) == Len(s) >= Len(p) /\ SubSeq(s, 1, Len(p)) = p

\* String.prototype.replace with a string pattern: the first occurrence only
replace(s, p, r) ==
    LET occ == {i \in 1..(Len(s) - Len(p) + 1) : SubSeq(s, i, i + Len(p) - 1) = p}
    IN  IF occ = {} THEN s
        ELSE LET i == CHOOSE j \in occ : \A k \in occ : j <= k
             IN  SubSeq(s, 1, i - 1) \o r \o SubSeq(s, i + Len(p), Len(s))

-----------------------------------------------------------------------------
(* Configuration *)

NIM_API_BASE == "https://integrate.api.nvidia.com/v1"

NIM_API_KEY == "nvapi-key"

nimModel == Str("z-ai/glm4.7")

\* temperature default 0.7, in tenths
DefaultTemperature == 7

DefaultMaxTokens == 2048

Secrets == {Undefined, Str("k1")}

-----------------------------------------------------------------------------
(* Inbound requests *)

Methods == {"GET", "POST", "PUT"}

Paths == {"/health", "/v1/models", "/v1/chat/completions", "/foo"}

AuthHeaders ==
    {Undefined, Str("Bearer k1"), Str("Bearer k2"), Str("Basic k1"), Str("k1"),
     Str("Bearer undefined"), Str("Bearer Bearer k1")}

Messages == <<[role |-> "system", content |-> "be brief"], [role |-> "user", content |-> "hi"]>>

EmptyBody ==
    [model |-> Undefined, messages |-> Undefined, temperature |-> Undefined,
     max_tokens |-> Undefined, stream |-> Undefined]

ChatBodies ==
    [model : {Undefined, Str("gpt-4o"), Str("my-model")},
     messages : {Undefined, Obj(Messages)},
     temperature : {Undefined, Num(0), Num(10)},
     max_tokens : {Undefined, Num(0), Num(16)},
     stream : {Undefined, Bool(FALSE), Bool(TRUE)}]

BodiesOf(method) == IF method = "POST" THEN ChatBodies ELSE {EmptyBody}

NoReq == [method |-> "", path |-> "", authorization |-> Undefined, body |-> EmptyBody]

-----------------------------------------------------------------------------
(* Client response *)

NoBody == [kind |-> "none"]

FreshRes ==
    [status |-> 200, headers |-> {}, body |-> NoBody, chunks |-> <<>>,
     ended |-> FALSE, by |-> "none", errors |-> 0]

\* res.status(status).json(body): one complete JSON response, then the response is ended
json(status, body, by) ==
    [status |-> status, headers |-> {<<"Content-Type", "application/json">>}, body |-> body,
     chunks |-> <<>>, ended |-> TRUE, by |-> by,
     errors |-> IF body.kind = "error" THEN 1 ELSE 0]

ErrorBody(message, type, code) ==
    [kind |-> "error", error |-> [message |-> message, type |-> type, code |-> code]]

-----------------------------------------------------------------------------
(* Authentication middleware and routing *)

Unauthorized(message) ==
    json(401, ErrorBody(Str(message), Str("authentication_error"), Undefined), "auth")

\* the middleware without the exemption of the health path
authenticate_NoHealthExemption(r, secret) ==
    LET authHeader == r.authorization
    IN  IF ~Truthy(authHeader) \/ ~startsWith(authHeader.s, "Bearer ")
        THEN [next |-> FALSE, res |-> Unauthorized("Unauthorized: Missing API key")]
        ELSE IF Str(replace(authHeader.s, "Bearer ", "")) # secret
             THEN [next |-> FALSE, res |-> Unauthorized("Unauthorized: Invalid API key")]
             ELSE [next |-> TRUE, res |-> FreshRes]

\* the middleware without the comparison with the secret
authenticate_AnyBearer(r, secret) ==
    IF r.path = "/health" THEN [next |-> TRUE, res |-> FreshRes]
    ELSE IF ~Truthy(r.authorization) \/ ~startsWith(r.authorization.s, "Bearer ")
         THEN [next |-> FALSE, res |-> Unauthorized("Unauthorized: Missing API key")]
         ELSE [next |-> TRUE, res |-> FreshRes]

\* app.use((req, res, next) => ...): "next" or the 401 response it sends
authenticate(r, secret) ==
    IF r.path = "/health" THEN [next |-> TRUE, res |-> FreshRes]
    ELSE LET authHeader == r.authorization
         IN  IF ~Truthy(authHeader) \/ ~startsWith(authHeader.s, "Bearer ")
             THEN [next |-> FALSE, res |-> Unauthorized("Unauthorized: Missing API key")]
             ELSE LET providedKey == Str(replace(authHeader.s, "Bearer ", ""))
                  IN  IF providedKey # secret
                      THEN [next |-> FALSE, res |-> Unauthorized("Unauthorized: Invalid API key")]
                      ELSE [next |-> TRUE, res |-> FreshRes]

\* the first registered route that matches method and path
route(r) ==
    IF r.method = "GET" /\ r.path = "/health" THEN "health"
    ELSE IF r.method = "GET" /\ r.path = "/v1/models" THEN "models"
    ELSE IF r.method = "POST" /\ r.path = "/v1/chat/completions" THEN "chat"
    ELSE "catchall"

health ==
    json(200, [kind |-> "health", status |-> "ok", service |-> "OpenAI to NVIDIA NIM Proxy",
               authenticated |-> TRUE], "health")

models ==
    json(200, [kind |-> "models", object |-> "list",
               data |-> <<[id |-> "gpt-4o", object |-> "model", owned_by |-> "nvidia-nim-proxy"],
                          [id |-> "gpt-4", object |-> "model", owned_by |-> "nvidia-nim-proxy"]>>],
         "models")

catchAll(r) ==
    json(404, ErrorBody(Str("Endpoint " \o r.path \o " not found"),
                        Str("invalid_request_error"), Num(404)), "catchall")

-----------------------------------------------------------------------------
(* Chat completions: the outbound call *)

nimRequest(body) ==
    [model |-> nimModel,
     messages |-> body.messages,
     temperature |-> OrElse(body.temperature, Num(DefaultTemperature)),
     max_tokens |-> OrElse(body.max_tokens, Num(DefaultMaxTokens)),
     stream |-> OrElse(body.stream, Bool(FALSE))]

responseType(body) == IF Truthy(body.stream) THEN "stream" ELSE "json"

\* axios.post(url, nimRequest, {headers, responseType})
axiosPost(body) ==
    [url |-> NIM_API_BASE \o "/chat/completions",
     data |-> nimRequest(body),
     headers |-> [Authorization |-> "Bearer " \o NIM_API_KEY, ContentType |-> "application/json"],
     responseType |-> responseType(body)]

-----------------------------------------------------------------------------
(* What the upstream can answer *)

Arr(a) == [t |-> "array", a |-> a]

Usage == Obj([prompt_tokens |-> Num(3), completion_tokens |-> Num(5), total_tokens |-> Num(8)])

ZeroUsage == Obj([prompt_tokens |-> Num(0), completion_tokens |-> Num(0), total_tokens |-> Num(0)])

UpstreamMessages ==
    {Obj(m) : m \in [role : {Str("assistant")},
                     content : {Undefined, Null, Str(""), Str("answer")},
                     reasoning_content : {Undefined, Null, Str(""), Str("think")}]}

UpstreamChoices ==
    [index : {Num(0)}, message : UpstreamMessages, finish_reason : {Str("stop"), Null}]
      \cup {[index |-> Num(0), message |-> Undefined, finish_reason |-> Str("stop")]}

SecondChoice ==
    [index |-> Num(1),
     message |-> Obj([role |-> Str("assistant"), content |-> Str("other"),
                      reasoning_content |-> Str("why")]),
     finish_reason |-> Str("length")]

UpstreamData ==
    [choices : {Undefined, Arr(<<>>)} \cup {Arr(<<c>>) : c \in UpstreamChoices}
                 \cup {Arr(<<c, SecondChoice>>) : c \in {x \in UpstreamChoices : x.finish_reason = Null}},
     usage : {Undefined, Usage}]

\* bodies of a non-2xx upstream answer
UpstreamErrorBodies ==
    {Obj([error |-> Obj([message |-> Str("rate limited")])]),
     Obj([detail |-> Str("no error member")]),
     Str("<html>Bad Gateway</html>")}

UpstreamErrorStatuses == {429, 502}

\* with responseType 'stream' axios hands out the unread stream as response.data,
\* on a rejected call too; with 'json' it hands out the parsed body
StreamObject == Obj([readable |-> Bool(TRUE)])

responseData(type, body) == IF type = "stream" THEN StreamObject ELSE body

\* the error axios rejects with when the upstream answered with a non-2xx status
HttpError(type, status, body) ==
    Obj([message |-> Str("Request failed with status code " \o ToString(status)),
         response |-> Obj([status |-> Num(status), data |-> responseData(type, body)])])

\* the error axios rejects with when no answer arrived
TransportErrors ==
    {Obj([message |-> Str("connect ECONNREFUSED")]), Obj([message |-> Str("socket hang up")])}

TypeError(what) == Obj([message |-> Str("Cannot read properties of undefined (reading '" \o what \o "')")])

Chunks == {"data: {\"delta\":\"a\"}\n\n", "data: [DONE]\n\n"}

NoUpstream ==
    [result |-> "none", status |-> 0, body |-> Undefined, error |-> Undefined,
     produced |-> <<>>, state |-> "none"]

-----------------------------------------------------------------------------
(* Chat completions: translating the answer *)

\* the translation with the separator appended whatever the content
translateChoice_AlwaysSeparator(choice) ==
    LET content0 == OrElse(OptGet(choice.message, "content"), Str(""))
        reasoning == OptGet(choice.message, "reasoning_content")
    IN  [index |-> choice.index,
         message |-> [role |-> OptGet(choice.message, "role"),
                      content |-> IF Truthy(reasoning)
                                  THEN Str(reasoning.s \o "\n\n" \o content0.s)
                                  ELSE content0],
         finish_reason |-> choice.finish_reason]

\* the body of response.data.choices.map(choice => ...)
translateChoice(choice) ==
    LET content0 == OrElse(OptGet(choice.message, "content"), Str(""))
        reasoning == OptGet(choice.message, "reasoning_content")
        content == IF Truthy(reasoning)
                   THEN Str(reasoning.s \o (IF Truthy(content0) THEN "\n\n" \o content0.s ELSE ""))
                   ELSE content0
    IN  [index |-> choice.index,
         message |-> [role |-> OptGet(choice.message, "role"), content |-> content],
         finish_reason |-> choice.finish_reason]

\* the TypeError the non-streaming branch throws on this answer, or Undefined
translationError(data) ==
    IF data.choices.t # "array" THEN TypeError("map")
    ELSE IF \E i \in 1..Len(data.choices.a) : Nullish(data.choices.a[i].message)
         THEN TypeError("role")
         ELSE Undefined

\* the envelope carrying the upstream model identifier
openaiResponse_NimModel(model, data) ==
    [kind |-> "completion",
     object |-> "chat.completion",
     model |-> nimModel,
     choices |-> [i \in 1..Len(data.choices.a) |-> translateChoice(data.choices.a[i])],
     usage |-> OrElse(data.usage, ZeroUsage)]

openaiResponse(model, data) ==
    [kind |-> "completion",
     object |-> "chat.completion",
     model |-> model,
     choices |-> [i \in 1..Len(data.choices.a) |-> translateChoice(data.choices.a[i])],
     usage |-> OrElse(data.usage, ZeroUsage)]

\* catch (error) { res.status(...).json({error: ...}) }
catchError(error) ==
    LET status == OrElse(OptGet(OptGet(error, "response"), "status"), Num(500))
        message == OrElse(OrElse(OptGet(OptGet(OptGet(OptGet(error, "response"), "data"), "error"),
                                        "message"),
                                 OptGet(error, "message")),
                          Str("Internal server error"))
    IN  json(status.n, ErrorBody(message, Str("invalid_request_error"), status), "chat")

EventStreamHeaders ==
    {<<"Content-Type", "text/event-stream">>, <<"Cache-Control", "no-cache">>,
     <<"Connection", "keep-alive">>}

-----------------------------------------------------------------------------
(* State machine *)

\* Vocabulary of the properties: the requests they speak of
HealthCheck(r) == r.method = "GET" /\ r.path = "/health"

ChatCompletions(r) == r.method = "POST" /\ r.path = "/v1/chat/completions"

\* the Authorization header is 'Bearer ' followed by exactly the configured secret
ValidBearer(r) ==
    /\ PROXY_SECRET.t = "string"
    /\ r.authorization.t = "string"
    /\ r.authorization.s = "Bearer " \o PROXY_SECRET.s

Init ==
    /\ PROXY_SECRET \in Secrets
    /\ req = NoReq
    /\ pc = "idle"
    /\ res = FreshRes
    /\ outbound = <<>>
    /\ upstream = NoUpstream
    /\ nRequests = 0
    /\ nAuthChat = 0
    /\ nOutbound = 0

\* One inbound request runs through the authentication middleware and the route
\* it is dispatched to; the chat handler runs up to `await axios.post(...)`.
Request(r) ==
    /\ pc = "idle"
    /\ nRequests < MaxReq
    /\ req' = r
    /\ nRequests' = nRequests + 1
    /\ nAuthChat' = IF ChatCompletions(r) /\ ValidBearer(r) THEN nAuthChat + 1 ELSE nAuthChat
    /\ upstream' = NoUpstream
    /\ LET auth == authenticate(r, PROXY_SECRET)
       IN  IF ~auth.next
           THEN /\ res' = auth.res
                /\ pc' = "done"
                /\ outbound' = <<>>
                /\ UNCHANGED nOutbound
           ELSE IF route(r) = "chat"
                THEN /\ res' = FreshRes
                     /\ outbound' = <<axiosPost(r.body)>>
                     /\ pc' = "awaiting"
                     /\ nOutbound' = nOutbound + 1
                ELSE /\ res' = CASE route(r) = "health" -> health
                                 [] route(r) = "models" -> models
                                 [] OTHER -> catchAll(r)
                     /\ pc' = "done"
                     /\ outbound' = <<>>
                     /\ UNCHANGED nOutbound
    /\ UNCHANGED PROXY_SECRET

Receive ==
    \E m \in Methods, p \in Paths, a \in AuthHeaders :
        \E b \in BodiesOf(m) :
            Request([method |-> m, path |-> p, authorization |-> a, body |-> b])

\* The upstream answers 2xx to a call made with responseType 'json'.
ResolveJson(data) ==
    /\ pc = "awaiting"
    /\ outbound[1].responseType = "json"
    /\ LET thrown == translationError(data)
       IN  /\ upstream' = [upstream EXCEPT !.result = IF thrown = Undefined THEN "resolved" ELSE "threw",
                                           !.status = 200, !.body = data, !.error = thrown]
           /\ res' = IF thrown = Undefined
                     THEN json(200, openaiResponse(req.body.model, data), "chat")
                     ELSE catchError(thrown)
    /\ pc' = "done"
    /\ UNCHANGED <<PROXY_SECRET, req, outbound, nRequests, nAuthChat, nOutbound>>

\* The upstream answers 2xx to a call made with responseType 'stream':
\* the headers are set and the upstream stream is piped into the response.
ResolveStream ==
    /\ pc = "awaiting"
    /\ outbound[1].responseType = "stream"
    /\ upstream' = [upstream EXCEPT !.result = "resolved", !.status = 200, !.state = "open"]
    /\ res' = [res EXCEPT !.headers = EventStreamHeaders, !.by = "chat"]
    /\ pc' = "piping"
    /\ UNCHANGED <<PROXY_SECRET, req, outbound, nRequests, nAuthChat, nOutbound>>

\* axios.post rejects: the catch block answers.
Reject(status, body, error) ==
    /\ pc = "awaiting"
    /\ upstream' = [upstream EXCEPT !.result = "rejected", !.status = status, !.body = body,
                                    !.error = error]
    /\ res' = catchError(error)
    /\ pc' = "done"
    /\ UNCHANGED <<PROXY_SECRET, req, outbound, nRequests, nAuthChat, nOutbound>>

RejectHttp ==
    \E s \in UpstreamErrorStatuses, b \in UpstreamErrorBodies :
        Reject(s, b, HttpError(outbound[1].responseType, s, b))

RejectTransport == \E e \in TransportErrors : Reject(0, Undefined, e)

\* The upstream stream receives a chunk.
UpstreamEmit(c) ==
    /\ pc = "piping"
    /\ upstream.state = "open"
    /\ Len(upstream.produced) < MaxChunks
    /\ upstream' = [upstream EXCEPT !.produced = Append(@, c)]
    /\ UNCHANGED <<PROXY_SECRET, req, pc, res, outbound, nRequests, nAuthChat, nOutbound>>

\* a relay that writes every chunk twice
PipeData_Twice ==
    /\ pc = "piping"
    /\ Len(res.chunks) < Len(upstream.produced)
    /\ res' = [res EXCEPT !.chunks = @ \o <<upstream.produced[Len(@) + 1],
                                             upstream.produced[Len(@) + 1]>>]
    /\ UNCHANGED <<PROXY_SECRET, req, pc, outbound, upstream, nRequests, nAuthChat, nOutbound>>

\* pipe: a 'data' event of the upstream stream writes the chunk to the response.
PipeData ==
    /\ pc = "piping"
    /\ Len(res.chunks) < Len(upstream.produced)
    /\ res' = [res EXCEPT !.chunks = Append(@, upstream.produced[Len(@) + 1])]
    /\ UNCHANGED <<PROXY_SECRET, req, pc, outbound, upstream, nRequests, nAuthChat, nOutbound>>

\* The upstream stream reaches its end.
UpstreamEnd ==
    /\ pc = "piping"
    /\ upstream.state = "open"
    /\ upstream' = [upstream EXCEPT !.state = "ended"]
    /\ UNCHANGED <<PROXY_SECRET, req, pc, res, outbound, nRequests, nAuthChat, nOutbound>>

\* pipe: the 'end' event, after the last chunk, ends the response.
PipeEnd ==
    /\ pc = "piping"
    /\ upstream.state = "ended"
    /\ Len(res.chunks) = Len(upstream.produced)
    /\ res' = [res EXCEPT !.ended = TRUE]
    /\ pc' = "done"
    /\ UNCHANGED <<PROXY_SECRET, req, outbound, upstream, nRequests, nAuthChat, nOutbound>>

\* The upstream stream fails after the call resolved: the stream is destroyed
\* without an 'end' event, pipe unpipes, and no code of the handler runs (the
\* try block was left when pipe returned).
UpstreamError ==
    /\ pc = "piping"
    /\ upstream.state = "open"
    /\ upstream' = [upstream EXCEPT !.state = "errored"]
    /\ pc' = "unpiped"
    /\ UNCHANGED <<PROXY_SECRET, req, res, outbound, nRequests, nAuthChat, nOutbound>>

\* The exchange is over for the server: the response was ended, or the client
\* gave up on a response that nothing will end.  Nothing of it is kept.
Release ==
    /\ pc \in {"done", "unpiped"}
    /\ req' = NoReq
    /\ res' = FreshRes
    /\ outbound' = <<>>
    /\ upstream' = NoUpstream
    /\ pc' = "idle"
    /\ UNCHANGED <<PROXY_SECRET, nRequests, nAuthChat, nOutbound>>

Next ==
    \/ Receive
    \/ Release
    \/ \E d \in UpstreamData : ResolveJson(d)
    \/ ResolveStream
    \/ RejectHttp
    \/ RejectTransport
    \/ \E c \in Chunks : UpstreamEmit(c)
    \/ PipeData
    \/ UpstreamEnd
    \/ PipeEnd
    \/ UpstreamError

Spec == Init /\ [][Next]_vars

-----------------------------------------------------------------------------
(* Properties *)

Arrived == req # NoReq

Over == pc \in {"done", "unpiped"}

NonStreaming(r) == ~Truthy(r.body.stream)

IsPrefix(a, b) == Len(a) <= Len(b) /\ SubSeq(b, 1, Len(a)) = a

Contains(s, p) == \E i \in 1..(Len(s) - Len(p) + 1) : SubSeq(s, i, i + Len(p) - 1) = p

NonEmptyString(v) == v.t = "string" /\ v.s # ""

\* C1: every request other than GET /health that carries no valid bearer token
\* is answered 401 with error.type 'authentication_error', by the
\* authentication middleware and by no route handler.
C1_UnauthenticatedRejected ==
    (Arrived /\ ~HealthCheck(req) /\ ~ValidBearer(req)) =>
        /\ res.status = 401
        /\ res.body.kind = "error"
        /\ res.body.error.type = Str("authentication_error")
        /\ res.by = "auth"

\* C2: for an authenticated non-streaming chat-completions request the outbound
\* request names the one fixed upstream model, and a returned completion
\* envelope names the model the client supplied.
C2_ModelSubstituted ==
    (ChatCompletions(req) /\ ValidBearer(req) /\ NonStreaming(req)) =>
        /\ Len(outbound) = 1
        /\ outbound[1].data.model = Str("z-ai/glm4.7")
        /\ (upstream.result = "resolved" =>
                /\ res.body.kind = "completion"
                /\ res.body.model = req.body.model)

C2_Witness ==
    /\ ChatCompletions(req) /\ ValidBearer(req) /\ NonStreaming(req)
    /\ req.body.model = Str("my-model")
    /\ upstream.result = "resolved"
    /\ res.body.kind = "completion"
    /\ res.body.model = Str("my-model")
    /\ outbound[1].data.model = Str("z-ai/glm4.7")

\* what the fields left alone by the translation must satisfy
ChoicePreserved(up, out) ==
    /\ DOMAIN out.message = {"role", "content"}
    /\ out.index = up.index
    /\ out.message.role = OptGet(up.message, "role")
    /\ out.finish_reason = up.finish_reason

\* C3 as stated: the translated content is reasoning_content, a blank line, then
\* content whenever reasoning_content is present, and the upstream content
\* unchanged whenever it is absent; no reasoning_content field is carried, and
\* index, role and finish_reason are preserved.
C3_ReasoningAlwaysSeparated ==
    (res.body.kind = "completion") =>
        \A i \in 1..Len(res.body.choices) :
            LET up == upstream.body.choices.a[i]
                out == res.body.choices[i]
                reasoning == OptGet(up.message, "reasoning_content")
                content == OptGet(up.message, "content")
            IN  /\ (reasoning.t = "string" =>
                        /\ content.t = "string"
                        /\ out.message.content = Str(reasoning.s \o "\n\n" \o content.s))
                /\ (reasoning.t = "undefined" => out.message.content = content)
                /\ ChoicePreserved(up, out)

\* C3 amended: the translated content is reasoning_content, a blank line, then
\* content when both are non-empty strings; reasoning_content alone when content
\* is absent, null or empty; content alone when reasoning_content is absent,
\* null or empty; the empty string when both are absent, null or empty.  No
\* reasoning_content field is carried; index, role and finish_reason are preserved.
C3_ReasoningMerged ==
    (res.body.kind = "completion") =>
        \A i \in 1..Len(res.body.choices) :
            LET up == upstream.body.choices.a[i]
                out == res.body.choices[i]
                reasoning == OptGet(up.message, "reasoning_content")
                content == OptGet(up.message, "content")
            IN  /\ out.message.content =
                     CASE NonEmptyString(reasoning) /\ NonEmptyString(content) ->
                              Str(reasoning.s \o "\n\n" \o content.s)
                       [] NonEmptyString(reasoning) /\ ~NonEmptyString(content) -> reasoning
                       [] ~NonEmptyString(reasoning) /\ NonEmptyString(content) -> content
                       [] OTHER -> Str("")
                /\ ChoicePreserved(up, out)

C3_Witness ==
    /\ res.body.kind = "completion"
    /\ Len(res.body.choices) = 2
    /\ OptGet(upstream.body.choices.a[1].message, "reasoning_content") = Str("think")
    /\ OptGet(upstream.body.choices.a[1].message, "content") = Str("")
    /\ res.body.choices[1].message.content = Str("think")
    /\ res.body.choices[2].message.content = Str("why\n\nother")

\* C4: a failed outbound call that carries an upstream status S and a body
\* {error: {message: M}} is answered with status S, error.message M, error.type
\* 'invalid_request_error' and error.code S, streaming or not; one without an
\* upstream status is answered 500 with the local error text.
C4_UpstreamErrorForwarded ==
    (upstream.result = "rejected") =>
        /\ res.body.kind = "error"
        /\ res.body.error.type = Str("invalid_request_error")
        /\ IF upstream.status # 0
           THEN /\ res.status = upstream.status
                /\ res.body.error.code = Num(upstream.status)
                /\ LET M == OptGet(OptGet(upstream.body, "error"), "message")
                   IN  M.t = "string" => res.body.error.message = M
           ELSE /\ res.status = 500
                /\ res.body.error.code = Num(500)
                /\ res.body.error.message = OptGet(upstream.error, "message")

\* C5: once a streaming call has succeeded, the response carries the event
\* stream headers, no body byte is ever sent without them, and the chunks
\* delivered to the client are a prefix of the chunks the upstream produced;
\* no JSON body is written.
C5_StreamRelayed ==
    /\ (Len(res.chunks) > 0 => EventStreamHeaders \subseteq res.headers)
    /\ (ChatCompletions(req) /\ ValidBearer(req) /\ Truthy(req.body.stream)
          /\ upstream.result = "resolved") =>
            /\ <<"Content-Type", "text/event-stream">> \in res.headers
            /\ <<"Cache-Control", "no-cache">> \in res.headers
            /\ <<"Connection", "keep-alive">> \in res.headers
            /\ IsPrefix(res.chunks, upstream.produced)
            /\ res.body = NoBody
            /\ res.status = 200

C5_Witness ==
    /\ Truthy(req.body.stream)
    /\ upstream.result = "resolved"
    /\ Len(upstream.produced) = 2
    /\ upstream.produced[1] # upstream.produced[2]
    /\ res.chunks = upstream.produced
    /\ res.ended

\* C6: in the outbound body, temperature, max_tokens and stream equal the
\* client's value whenever one was supplied (0 and false included) and the
\* defaults 0.7, 2048 and false only when the field is absent; messages are
\* forwarded unchanged.
C6_DefaultsOnlyWhenAbsent ==
    (Len(outbound) > 0) =>
        LET sent == outbound[1].data
        IN  /\ sent.temperature =
                 IF req.body.temperature # Undefined THEN req.body.temperature ELSE Num(7)
            /\ sent.max_tokens =
                 IF req.body.max_tokens # Undefined THEN req.body.max_tokens ELSE Num(2048)
            /\ sent.stream =
                 IF req.body.stream # Undefined THEN req.body.stream ELSE Bool(FALSE)
            /\ sent.messages = req.body.messages

\* C7: GET /health is answered 200 with the health body whatever the
\* Authorization header and whether or not a secret is configured, and makes
\* no outbound call.
C7_HealthAlwaysOk ==
    (Arrived /\ HealthCheck(req)) =>
        /\ res.status = 200
        /\ res.body.kind = "health"
        /\ res.body.status = "ok"
        /\ res.ended
        /\ outbound = <<>>
        /\ upstream = NoUpstream

C7_Witness ==
    /\ HealthCheck(req)
    /\ PROXY_SECRET = Str("k1")
    /\ req.authorization = Str("Bearer k2")
    /\ res.status = 200
    /\ res.body.kind = "health"

\* the outbound call, the translation of its result or the upstream stream failed
Failed == upstream.result \in {"rejected", "threw"} \/ upstream.state = "errored"

\* C8: at most one outbound call is made for a request, and a request whose
\* call, translation or stream failed has been sent exactly one error
\* response once its handling is over.
C8_FailureReportedOnce ==
    /\ Len(outbound) <= 1
    /\ res.errors <= 1
    /\ (Over /\ Failed) => res.errors = 1

\* C9: in streaming mode, when handling is over because the upstream stream
\* ended or failed, the client response has been ended.
C9_StreamFinishEndsResponse ==
    (Over /\ upstream.state \in {"ended", "errored"}) => res.ended

\* C10: outbound calls are made only for authenticated POST /v1/chat/completions
\* requests: there are never more calls than such requests, any other request
\* has no outbound call, and the upstream API key travels only in the
\* Authorization header of such a call.
C10_OutboundOnlyForAuthenticatedChat ==
    /\ nOutbound <= nAuthChat
    /\ (outbound # <<>> => ChatCompletions(req) /\ ValidBearer(req))
    /\ (Arrived /\ ~(ChatCompletions(req) /\ ValidBearer(req))) =>
            /\ outbound = <<>>
            /\ upstream = NoUpstream
    /\ (res.body.kind = "error" => ~Contains(res.body.error.message.s, NIM_API_KEY))
    /\ \A i \in 1..Len(outbound) :
            outbound[i].url = "https://integrate.api.nvidia.com/v1/chat/completions"

C10_Witness ==
    /\ nRequests = 2
    /\ nAuthChat = 1
    /\ nOutbound = 1
    /\ ChatCompletions(req)
    /\ req.authorization = Str("Bearer k2")
    /\ res.status = 401
    /\ outbound = <<>>

====
